---- MODULE Spec2Model ----
(***************************************************************************)
(* chapterizer.ts: the KeyFrame parser, the KeyFrameCollector sink that    *)
(* scans the analysis process's output for [FRAME] blocks, the chapter     *)
(* boundary selection (filterFrames) and the chapter document renderer     *)
(* (generateChapterMetadata), chapterize with its two child processes and   *)
(* the batch loop over the files of the source directory.                  *)
(*                                                                         *)
(* Text is a sequence of one-character strings.  The analysis output is    *)
(* plain ASCII, for which TextDecoder.decode maps every byte of a chunk to *)
(* the one character it encodes, so a chunk of bytes is the same sequence. *)
(***************************************************************************)
EXTENDS Integers, Sequences, FiniteSets, TLC

VARIABLES
  blocks,        \* the frame descriptors the analysis process prints
  input,         \* the text of blocks: all the analysis process prints if it runs to its end
  pos,           \* how many characters of input the pipe has delivered
  stringBuffer,  \* KeyFrameCollector.stringBuffer
  keyFrames,     \* KeyFrameCollector.keyFrames
  completionPromise,  \* KeyFrameCollector.completionPromise: its state and value
  stream,        \* the WritableStream around the collector
  writeError,    \* what the sink's last call threw, "none" when it returned
  doc,           \* chapterize: the chapter document handed to the muxer
  lastCall,      \* the method a caller holding the collector itself called last
  calls,         \* how many such calls were made
  frameText,     \* the text a caller passes to new KeyFrame(frameData)
  parsed,        \* what new KeyFrame(frameText) gave: <<>> before the call
  probe,         \* the analysis process (ffprobe): running, or how it ended
  muxer,         \* the muxer process (ffmpeg): its stdin, exit status and stderr
  outcome,       \* how the current call of chapterize ended, if it has
  runtime,       \* where the main module is: the batch loop, chapterize, or ended
  fileNo,        \* how many files the batch loop has taken from walk
  log            \* what the batch loop's catch wrote with console.error

\* The variables of the collector behind its stream.
collector == <<blocks, input, pos, stringBuffer, keyFrames, completionPromise, stream, writeError, doc>>

\* The variables of a caller of the collector's methods and of the parser.
direct == <<lastCall, calls, frameText, parsed>>

\* The variables of chapterize and of the batch loop.
batch == <<probe, muxer, outcome, runtime, fileNo, log>>

vars == <<collector, direct, batch>>

-----------------------------------------------------------------------------
(* Bounds of the model *)

\* Number of [FRAME] blocks the analysis process emits (text specification).
MaxBlocks == 2

\* Length of the KeyFrame sequence drawn by the chapter specification.
MaxFrames == 5

-----------------------------------------------------------------------------
(* Characters and the literals of the two regular expressions *)

Digit == {"0", "1", "2", "3", "4", "5", "6", "7", "8", "9"}

NL == <<"\n">>

\* \[FRAME\]
LitOpen == <<"[", "F", "R", "A", "M", "E", "]">>

\* \[\/FRAME\]
LitClose == <<"[", "/", "F", "R", "A", "M", "E", "]">>

\* key_frame=
LitKeyFrame == <<"k", "e", "y", "_", "f", "r", "a", "m", "e", "=">>

\* pts_time=
LitPts == <<"p", "t", "s", "_", "t", "i", "m", "e", "=">>

\* pkt_pos=
LitPos == <<"p", "k", "t", "_", "p", "o", "s", "=">>

Min(S) == CHOOSE x \in S : \A y \in S : x <= y

Max(S) == CHOOSE x \in S : \A y \in S : x >= y

\* The literal lit stands in s at index i.
Occurs(s, lit, i) ==
  /\ s[i] = lit[1]
  /\ i + Len(lit) - 1 <= Len(s)
  /\ SubSeq(s, i, i + Len(lit) - 1) = lit

\* The literal lit stands in s at index i and a digit follows it.
OccursWithDigit(s, lit, i) ==
  /\ Occurs(s, lit, i)
  /\ i + Len(lit) <= Len(s)
  /\ s[i + Len(lit)] \in Digit

\* The longest run of digits of s that starts at index i: a greedy \d+.
RECURSIVE DigitRun(_, _)
DigitRun(s, i) ==
  IF i <= Len(s) /\ s[i] \in Digit
  THEN <<s[i]>> \o DigitRun(s, i + 1)
  ELSE <<>>

DigitValue(c) ==
  CASE c = "0" -> 0 [] c = "1" -> 1 [] c = "2" -> 2 [] c = "3" -> 3
    [] c = "4" -> 4 [] c = "5" -> 5 [] c = "6" -> 6 [] c = "7" -> 7
    [] c = "8" -> 8 [] c = "9" -> 9

\* parseInt on a non-empty run of decimal digits.
RECURSIVE parseInt(_)
parseInt(ds) ==
  IF ds = <<>> THEN 0
  ELSE 10 * parseInt(SubSeq(ds, 1, Len(ds) - 1)) + DigitValue(ds[Len(ds)])

-----------------------------------------------------------------------------
(* class KeyFrame *)

\* KeyFrame.frameRegEX = /.*pts_time=(\d+).*pkt_pos=(\d+).*/su  matched against
\* frameData.  Both .* before the groups are greedy and match any character: the
\* first group is taken at the LAST pts_time=<digit> that still has a
\* pkt_pos=<digit> after it, the second at the LAST pkt_pos=<digit>.
frameRegEX(frameData) ==
  LET ps    == {x \in 1..Len(frameData) : frameData[x] = "p"}
      ptsAt == {p \in ps : OccursWithDigit(frameData, LitPts, p)}
      posAt == {q \in ps : OccursWithDigit(frameData, LitPos, q)}
      cands == {p \in ptsAt : \E q \in posAt : q > p + Len(LitPts)}
  IN  IF cands = {}
      THEN [found |-> FALSE]
      ELSE LET p == Max(cands)
               q == Max({x \in posAt : x > p + Len(LitPts)})
           IN  [found |-> TRUE,
                g1 |-> DigitRun(frameData, p + Len(LitPts)),
                g2 |-> DigitRun(frameData, q + Len(LitPos))]

\* new KeyFrame(frameData): the frame, or the Error it throws.
KeyFrame(frameData) ==
  LET matches == frameRegEX(frameData)
  IN  IF ~matches.found
      THEN [threw |-> TRUE]
      ELSE [threw |-> FALSE,
            pts_time |-> parseInt(matches.g1),
            pkt_pos |-> parseInt(matches.g2)]

-----------------------------------------------------------------------------
(* class KeyFrameCollector: write *)

\* this.frameRegEx = /\[FRAME\](.*key_frame=(\d).*)\[\/FRAME\]/su  matched
\* against the buffer: the leftmost [FRAME] from which a match exists, then both
\* .* greedy (and matching line breaks): the flag is read at the LAST
\* key_frame=<digit> that still has a [/FRAME] after it, and the match ends with
\* the LAST [/FRAME] of the buffer.
frameRegEx(s) ==
  LET brackets == {i \in 1..Len(s) : s[i] = "["}
      closes == {e \in brackets : Occurs(s, LitClose, e)}
      opens  == {i \in brackets : Occurs(s, LitOpen, i)}
      flags  == {k \in {x \in 1..Len(s) : s[x] = "k"} :
                   OccursWithDigit(s, LitKeyFrame, k)}
      flagOk(i, k) == /\ k >= i + Len(LitOpen)
                      /\ \E e \in closes : e > k + Len(LitKeyFrame)
      cands  == {i \in opens : \E k \in flags : flagOk(i, k)}
  IN  IF closes = {} \/ opens = {} \/ cands = {}
      THEN [found |-> FALSE]
      ELSE LET i == Min(cands)
               k == Max({x \in flags : flagOk(i, x)})
               e == Max({x \in closes : x > k + Len(LitKeyFrame)})
           IN  [found |-> TRUE,
                index |-> i,
                last |-> e + Len(LitClose) - 1,
                g1 |-> SubSeq(s, i + Len(LitOpen), e - 1),
                g2 |-> s[k + Len(LitKeyFrame)]]

\* The while loop of write on the buffer buf with the frames kfs collected so
\* far: what the collector holds when the loop ends or new KeyFrame throws.
RECURSIVE writeLoop(_, _)
writeLoop(buf, kfs) ==
  LET matches == frameRegEx(buf)
  IN  IF ~matches.found
      THEN [stringBuffer |-> buf, keyFrames |-> kfs, threw |-> FALSE]
      ELSE LET removed == SubSeq(buf, 1, matches.index - 1)
                            \o SubSeq(buf, matches.last + 1, Len(buf))
           IN  IF matches.g2 = "1"
               THEN LET kf == KeyFrame(matches.g1)
                    IN  IF kf.threw
                        THEN [stringBuffer |-> buf, keyFrames |-> kfs, threw |-> TRUE]
                        ELSE writeLoop(removed,
                                       Append(kfs, [pts_time |-> kf.pts_time,
                                                    pkt_pos |-> kf.pkt_pos]))
               ELSE writeLoop(removed, kfs)

\* Mutant of write: the chunk replaces the buffer (= for +=).
writeOverwriting(buf, kfs, chunk) == writeLoop(chunk, kfs)

\* write(chunk) on a collector holding buf and kfs.
write(buf, kfs, chunk) == writeLoop(buf \o chunk, kfs)

-----------------------------------------------------------------------------
(* The analysis process's output: [FRAME] blocks as ffprobe -show_frames     *)
(* prints them, one field per line.                                         *)

\* A frame descriptor: its key_frame digit, the digits of pts_time and of
\* pkt_pos (<<>>: the field is absent), and whether pkt_pos precedes pts_time.
Descriptor(key, pts, pkt, swapped) ==
  [key_frame |-> key, pts_time |-> pts, pkt_pos |-> pkt, swapped |-> swapped]

KeyEarly   == Descriptor("1", <<"5">>, <<"4", "8">>, FALSE)

KeyLate    == Descriptor("1", <<"2", "0", "0">>, <<"7">>, FALSE)

NonKey     == Descriptor("0", <<"9", "0">>, <<"3">>, FALSE)

KeyNoPts   == Descriptor("1", <<>>, <<"9">>, FALSE)

KeyNoPos   == Descriptor("1", <<"8">>, <<>>, FALSE)

KeySwapped == Descriptor("1", <<"6">>, <<"2">>, TRUE)

WellFormed == {KeyEarly, KeyLate, NonKey}

Descriptors == WellFormed \cup {KeyNoPts, KeyNoPos, KeySwapped}

FieldText(lit, digits) == IF digits = <<>> THEN <<>> ELSE lit \o digits \o NL

BlockText(d) ==
  LET pts == FieldText(LitPts, d.pts_time)
      pkt == FieldText(LitPos, d.pkt_pos)
  IN  LitOpen \o NL \o LitKeyFrame \o <<d.key_frame>> \o NL
        \o (IF d.swapped THEN pkt \o pts ELSE pts \o pkt)
        \o LitClose \o NL

RECURSIVE StreamText(_)
StreamText(ds) ==
  IF ds = <<>> THEN <<>> ELSE BlockText(Head(ds)) \o StreamText(Tail(ds))

SeqsUpTo(S, n) == UNION {[1..m -> S] : m \in 0..n}

-----------------------------------------------------------------------------
(* The completion promise (constructor, lines 89-95) *)

Pending == [state |-> "pending", value |-> <<>>]

\* Mutant of resolve: the value is stored whatever the state of the promise.
resolveAlways(p, v) == [state |-> "fulfilled", value |-> v]

\* self.resolve(v): settles a pending promise, does nothing to a settled one.
resolve(p, v) == IF p.state = "pending" THEN [state |-> "fulfilled", value |-> v] ELSE p

\* self.reject(reason)
reject(p, reason) == IF p.state = "pending" THEN [state |-> "rejected", value |-> reason] ELSE p

-----------------------------------------------------------------------------
(* filterFrames *)

\* The selection gap of filterFrames, in the units of pts_time.
Threshold == 180

\* Mutant of exceeds: >= for >.
exceedsOrEqual(frame, lastFrame) == frame.pts_time - lastFrame.pts_time >= Threshold

\* Mutant of exceeds: the operands of the difference exchanged.
exceedsSwapped(frame, lastFrame) == lastFrame.pts_time - frame.pts_time > Threshold

\* frame.pts_time - lastFrame.pts_time > 180
exceeds(frame, lastFrame) == frame.pts_time - lastFrame.pts_time > Threshold

\* The for loop of filterFrames from element i on.  lastFrame is a sequence
\* holding the baseline frame, empty when this.keyFrames[0] was undefined:
\* reading pts_time of undefined throws a TypeError.
RECURSIVE filterLoop(_, _, _, _)
filterLoop(kfs, i, lastFrame, filteredFrames) ==
  IF i > Len(kfs)
  THEN [threw |-> FALSE, frames |-> filteredFrames]
  ELSE IF lastFrame = <<>>
       THEN [threw |-> TRUE, frames |-> <<>>]
       ELSE IF exceeds(kfs[i], lastFrame[1])
            THEN filterLoop(kfs, i + 1, <<kfs[i]>>, Append(filteredFrames, kfs[i]))
            ELSE filterLoop(kfs, i + 1, lastFrame, filteredFrames)

\* Mutant of filterFrames: the baseline is read before the loop, also when
\* this.keyFrames[0] is undefined.
filterFramesEager(kfs) ==
  IF kfs = <<>>
  THEN [threw |-> TRUE, frames |-> <<>>]
  ELSE filterLoop(kfs, 1, <<kfs[1]>>, <<>>)

\* Mutant of filterFrames: lastFrame is never advanced, every frame is compared
\* with the first.
filterFramesFixedBase(kfs) ==
  [threw |-> FALSE,
   frames |-> IF kfs = <<>> THEN <<>>
              ELSE SelectSeq(kfs, LAMBDA f : exceeds(f, kfs[1]))]

filterFrames(kfs) ==
  filterLoop(kfs, 1, IF kfs = <<>> THEN <<>> ELSE <<kfs[1]>>, <<>>)

-----------------------------------------------------------------------------
(* class KeyFrameCollection: generateChapterMetadata *)

\* ";FFMETADATA1\n"
LitHeader == <<";", "F", "F", "M", "E", "T", "A", "D", "A", "T", "A", "1", "\n">>

\* "[CHAPTER]\n"
LitChapter == <<"[", "C", "H", "A", "P", "T", "E", "R", "]", "\n">>

\* "TIMEBASE=1/1\n"
LitTimebase == <<"T", "I", "M", "E", "B", "A", "S", "E", "=", "1", "/", "1", "\n">>

\* "START="
LitStart == <<"S", "T", "A", "R", "T", "=">>

\* "END="
LitEnd == <<"E", "N", "D", "=">>

\* "title=Chapter "
LitTitle == <<"t", "i", "t", "l", "e", "=", "C", "h", "a", "p", "t", "e", "r", " ">>

DigitChar(n) ==
  CASE n = 0 -> "0" [] n = 1 -> "1" [] n = 2 -> "2" [] n = 3 -> "3"
    [] n = 4 -> "4" [] n = 5 -> "5" [] n = 6 -> "6" [] n = 7 -> "7"
    [] n = 8 -> "8" [] n = 9 -> "9"

\* Mutant of numberToString: the digits come out least significant first.
RECURSIVE numberToStringReversed(_)
numberToStringReversed(n) ==
  IF n < 10 THEN <<DigitChar(n)>>
  ELSE <<DigitChar(n % 10)>> \o numberToStringReversed(n \div 10)

\* `${n}` for a non-negative integer n: its decimal digits.
RECURSIVE numberToString(_)
numberToString(n) ==
  IF n < 10 THEN <<DigitChar(n)>>
  ELSE numberToString(n \div 10) \o <<DigitChar(n % 10)>>

\* Mutant of indexOf: a one-based index.
indexOfOneBased(a, x) == Min({j \in 1..Len(a) : a[j] = x})

\* Array.prototype.indexOf: the zero-based index of the first element equal
\* to x.  The frames of a collection are distinct objects.
indexOf(a, x) == Min({j \in 1..Len(a) : a[j] = x}) - 1

\* The for loop of generateChapterMetadata from element i on.  lastFrame is a
\* sequence holding the previous frame, empty while it is undefined.
RECURSIVE renderLoop(_, _, _, _)
renderLoop(frames, i, lastFrame, chapterString) ==
  IF i > Len(frames)
  THEN chapterString
  ELSE LET frame == frames[i]
           record ==
             IF lastFrame = <<>>
             THEN LitChapter \o LitTimebase
                    \o LitStart \o <<"0">> \o NL
                    \o LitEnd \o numberToString(frame.pts_time) \o NL
                    \o LitTitle \o <<"1">> \o NL
             ELSE LitChapter \o LitTimebase
                    \o LitStart \o numberToString(lastFrame[1].pts_time) \o NL
                    \o LitEnd \o numberToString(frame.pts_time) \o NL
                    \o LitTitle \o numberToString(indexOf(frames, frame) + 1) \o NL
       IN  renderLoop(frames, i + 1, <<frame>>, chapterString \o record)

generateChapterMetadata(frames) == renderLoop(frames, 1, <<>>, LitHeader)

-----------------------------------------------------------------------------
(* The collector behind its WritableStream (chapterize, lines 144-150) *)

\* The pipe delivers the next n characters of the analysis output as one chunk
\* and the stream calls write with it.  An Error thrown by write errors the
\* stream: the sink gets no further call.
Write(n) ==
  /\ stream = "writable"
  /\ pos + n <= Len(input)
  /\ LET r == write(stringBuffer, keyFrames, SubSeq(input, pos + 1, pos + n))
     IN  /\ stringBuffer' = r.stringBuffer
         /\ keyFrames' = r.keyFrames
         /\ writeError' = IF r.threw THEN "couldn't parse framedata" ELSE "none"
         /\ stream' = IF r.threw THEN "errored" ELSE "writable"
  /\ pos' = pos + n
  /\ UNCHANGED <<input, blocks, completionPromise, doc, direct, batch>>

\* Mutant of Close: the promise is resolved with the raw this.keyFrames.
CloseRaw ==
  /\ stream = "writable"
  /\ completionPromise' = resolve(completionPromise, keyFrames)
  /\ writeError' = "none"
  /\ stream' = "closed"
  /\ UNCHANGED <<input, blocks, pos, stringBuffer, keyFrames, doc, direct, batch>>

\* The analysis process's stdout reaches its end (the process ended, after all
\* of its output or before) and pipeTo closes the stream: close().  A
\* TypeError out of filterFrames leaves the promise as it was.
Close ==
  /\ stream = "writable"
  /\ LET f == filterFrames(keyFrames)
     IN  /\ completionPromise' = IF f.threw THEN completionPromise ELSE resolve(completionPromise, f.frames)
         /\ writeError' = IF f.threw THEN "TypeError" ELSE "none"
         /\ stream' = IF f.threw THEN "errored" ELSE "closed"
  /\ UNCHANGED <<input, blocks, pos, stringBuffer, keyFrames, doc, direct, batch>>

\* Reading the analysis process's stdout fails and pipeTo aborts the stream:
\* abort(reason).
Abort ==
  /\ stream = "writable"
  /\ completionPromise' = reject(completionPromise, "read error")
  /\ stream' = "errored"
  /\ writeError' = "none"
  /\ UNCHANGED <<input, blocks, pos, stringBuffer, keyFrames, doc, direct, batch>>

\* chapterize past its await (line 150): the document written to the muxer.
Render ==
  /\ completionPromise.state = "fulfilled"
  /\ doc = <<>>
  /\ doc' = generateChapterMetadata(completionPromise.value)
  /\ UNCHANGED <<input, blocks, pos, stringBuffer, keyFrames, completionPromise, stream, writeError,
                 direct, batch>>

\* No muxer has been started.
NoMuxer ==
  [state |-> "none", pending |-> <<>>, stdin |-> <<>>, closed |-> FALSE,
   success |-> TRUE, stderr |-> <<>>]

NotEnded == [kind |-> "running", error |-> <<>>]

NoCall == [op |-> "none", arg |-> "none"]

\* Nobody calls the collector's methods directly, no KeyFrame is built outside
\* write.
NoDirect ==
  /\ lastCall = NoCall
  /\ calls = 0
  /\ frameText = <<>>
  /\ parsed = <<>>

\* One call of chapterize, up to its await, outside of any batch.
OneFile ==
  /\ probe = "running"
  /\ muxer = NoMuxer
  /\ outcome = NotEnded
  /\ runtime = "chapterize"
  /\ fileNo = 1
  /\ log = <<>>

Fresh ==
  /\ pos = 0
  /\ stringBuffer = <<>>
  /\ completionPromise = Pending
  /\ stream = "writable"
  /\ writeError = "none"
  /\ doc = <<>>

\* A new collector, and an analysis process about to print up to MaxBlocks
\* blocks.
Init ==
  /\ blocks \in SeqsUpTo(Descriptors, MaxBlocks)
  /\ input = StreamText(blocks)
  /\ keyFrames = <<>>
  /\ Fresh
  /\ NoDirect
  /\ OneFile

Next ==
  \/ \E n \in 1..(Len(input) - pos) : Write(n)
  \/ Close
  \/ Abort
  \/ Render

Spec == Init /\ [][Next]_vars

-----------------------------------------------------------------------------
(* The collector behind its stream, on an analysis output short enough for  *)
(* every way of cutting it into chunks to be followed to its end.           *)

\* Number of [FRAME] blocks of that output.
MaxSplitBlocks == 1

InitSplit ==
  /\ blocks \in SeqsUpTo(Descriptors, MaxSplitBlocks)
  /\ input = StreamText(blocks)
  /\ keyFrames = <<>>
  /\ Fresh
  /\ NoDirect
  /\ OneFile

SpecSplit == InitSplit /\ [][Next]_vars

-----------------------------------------------------------------------------
(* The collector at the end of the analysis output: the frames the writes   *)
(* have collected are drawn directly, the text that produced them is not    *)
(* kept.                                                                    *)

\* Values of pts_time: the example of the selection (0, 50, 200, 210, 400),
\* 20, which is exactly Threshold below 200, and a value of four different
\* digits.
Stamps == {0, 20, 50, 200, 210, 400, 1234}

FrameValues == {[pts_time |-> t, pkt_pos |-> 0] : t \in Stamps}

InitChapters ==
  /\ blocks = <<>>
  /\ input = <<>>
  /\ keyFrames \in SeqsUpTo(FrameValues, MaxFrames)
  /\ Fresh
  /\ NoDirect
  /\ OneFile

NextChapters ==
  \/ Close
  \/ Abort
  \/ Render

SpecChapters == InitChapters /\ [][NextChapters]_vars

-----------------------------------------------------------------------------
(* chapterize with its two child processes, and the batch loop              *)
(* (lines 143-166 and 189-198)                                              *)

\* Number of files walk yields.
MaxFiles == 2

\* What the analysis process prints for a file of the batch: blocks that give
\* frames more than Threshold apart, and a block write throws on.
BatchDescriptors == {KeyEarly, KeyLate, KeyNoPts}

\* What the muxer may have printed on its stderr when it exits.
StderrTexts == {<<>>, <<"b", "a", "d", "\n">>}

LitCouldNot ==
  <<"c", "o", "u", "l", "d", " ", "n", "o", "t", " ", "w", "r", "i", "t", "e", " ", "c", "h", "a", "p", "t", "e", "r", "s", ",", " ",
    "h", "e", "r", "e", "'", "s", " ", "t", "h", "e", " ", "s", "t", "d", "e", "r", "r", ":", " ", "\n">>

\* Mutant of thrownError: the stderr text is left out of the message.
thrownErrorBare(stderrOutput) == LitCouldNot

\* new Error("could not write chapters, here's the stderr: \n" + decode(output))
thrownError(stderrOutput) == LitCouldNot \o stderrOutput

\* The for await loop takes the next file and calls chapterize: a new
\* collector, a new stream, the analysis process started and piped to it.
TakeFile ==
  /\ runtime = "loop"
  /\ stream # "errored"
  /\ fileNo < MaxFiles
  /\ fileNo' = fileNo + 1
  /\ runtime' = "chapterize"
  /\ blocks' \in SeqsUpTo(BatchDescriptors, MaxBlocks)
  /\ input' = StreamText(blocks')
  /\ pos' = 0
  /\ stringBuffer' = <<>>
  /\ keyFrames' = <<>>
  /\ completionPromise' = Pending
  /\ stream' = "writable"
  /\ writeError' = "none"
  /\ doc' = <<>>
  /\ probe' = "running"
  /\ muxer' = NoMuxer
  /\ outcome' = NotEnded
  /\ UNCHANGED <<log, direct>>

\* The pipe delivers the output up to the end of block j as one chunk.
WriteBlocks(j) ==
  /\ runtime = "chapterize"
  /\ Len(StreamText(SubSeq(blocks, 1, j))) > pos
  /\ Write(Len(StreamText(SubSeq(blocks, 1, j))) - pos)

\* The analysis process ends, with exit status 0 or not.  Nothing reads the
\* status: chapterize never calls keyframeProcess.status().
ProbeEnds(status) ==
  /\ runtime = "chapterize"
  /\ probe = "running"
  /\ probe' = status
  /\ UNCHANGED <<collector, direct, muxer, outcome, runtime, fileNo, log>>

\* End of the analysis process's stdout: after all of its output when it ran
\* to its end, after whatever it had printed when it failed.
EndOfOutput ==
  /\ runtime = "chapterize"
  /\ \/ probe = "ok" /\ pos = Len(input)
     \/ probe = "failed"
  /\ Close

ReadError ==
  /\ runtime = "chapterize"
  /\ probe = "running"
  /\ Abort

\* Line 149: the promise pipeTo returns is rejected when the stream is
\* errored, and nothing awaits or catches it: the runtime reports the
\* rejection as an uncaught error and ends the program.
UncaughtInPromise ==
  /\ runtime \in {"chapterize", "loop"}
  /\ stream = "errored"
  /\ runtime' = "uncaught"
  /\ UNCHANGED <<collector, direct, probe, muxer, outcome, fileNo, log>>

\* Line 150: the await of a rejected promise throws its reason.
AwaitRejected ==
  /\ runtime = "chapterize"
  /\ outcome = NotEnded
  /\ completionPromise.state = "rejected"
  /\ outcome' = [kind |-> "threw", error |-> completionPromise.value]
  /\ UNCHANGED <<collector, direct, probe, muxer, runtime, fileNo, log>>

\* Line 150 resumes with the collection; its document is rendered (line 159).
AwaitFulfilled ==
  /\ runtime = "chapterize"
  /\ Render

\* Lines 152-159: the muxer is started and stdin.write(document) is called.
\* The call only starts the write: its promise is not awaited.
StartMuxer ==
  /\ runtime = "chapterize"
  /\ doc # <<>>
  /\ muxer.state = "none"
  /\ muxer' = [muxer EXCEPT !.state = "running", !.pending = doc]
  /\ UNCHANGED <<collector, direct, probe, outcome, runtime, fileNo, log>>

\* The write started at line 159 moves the next k characters into the pipe.
StdinWrite(k) ==
  /\ muxer.state = "running"
  /\ ~muxer.closed
  /\ k \in 1..Len(muxer.pending)
  /\ muxer' = [muxer EXCEPT !.stdin = @ \o SubSeq(muxer.pending, 1, k),
                            !.pending = SubSeq(@, k + 1, Len(@))]
  /\ UNCHANGED <<collector, direct, probe, outcome, runtime, fileNo, log>>

\* Line 160: stdin.close(), whatever the write has moved so far.
StdinClose ==
  /\ runtime = "chapterize"
  /\ muxer.state # "none"
  /\ ~muxer.closed
  /\ muxer' = [muxer EXCEPT !.closed = TRUE]
  /\ UNCHANGED <<collector, direct, probe, outcome, runtime, fileNo, log>>

\* The muxer exits: with success only once its input has ended, with a
\* failure at any time.  text is all it printed on stderr.
MuxerExits(success, text) ==
  /\ muxer.state = "running"
  /\ success => muxer.closed
  /\ muxer' = [muxer EXCEPT !.state = "exited", !.success = success, !.stderr = text]
  /\ UNCHANGED <<collector, direct, probe, outcome, runtime, fileNo, log>>

\* Lines 161-165: status() resolves; on a failure stderrOutput() is read (the
\* whole text: nothing read the pipe before) and the Error is thrown.
StatusResolved ==
  /\ runtime = "chapterize"
  /\ outcome = NotEnded
  /\ muxer.closed
  /\ muxer.state = "exited"
  /\ outcome' = IF muxer.success
                THEN [kind |-> "returned", error |-> <<>>]
                ELSE [kind |-> "threw", error |-> thrownError(muxer.stderr)]
  /\ UNCHANGED <<collector, direct, probe, muxer, runtime, fileNo, log>>

\* Lines 194-198: chapterize has returned or thrown; what it threw is caught
\* and written with console.error, and the loop goes on.
EndOfChapterize ==
  /\ runtime = "chapterize"
  /\ outcome.kind # "running"
  /\ log' = IF outcome.kind = "threw"
            THEN Append(log, [file |-> fileNo, error |-> outcome.error])
            ELSE log
  /\ runtime' = "loop"
  /\ UNCHANGED <<collector, direct, probe, muxer, outcome, fileNo>>

\* walk has no more files: the main module ends.
EndOfWalk ==
  /\ runtime = "loop"
  /\ stream # "errored"
  /\ fileNo = MaxFiles
  /\ runtime' = "finished"
  /\ UNCHANGED <<collector, direct, probe, muxer, outcome, fileNo, log>>

InitBatch ==
  /\ blocks = <<>>
  /\ input = <<>>
  /\ keyFrames = <<>>
  /\ Fresh
  /\ NoDirect
  /\ probe = "none"
  /\ muxer = NoMuxer
  /\ outcome = NotEnded
  /\ runtime = "loop"
  /\ fileNo = 0
  /\ log = <<>>

NextBatch ==
  \/ TakeFile
  \/ \E j \in 1..Len(blocks) : WriteBlocks(j)
  \/ \E status \in {"ok", "failed"} : ProbeEnds(status)
  \/ EndOfOutput
  \/ ReadError
  \/ UncaughtInPromise
  \/ AwaitRejected
  \/ AwaitFulfilled
  \/ StartMuxer
  \/ \E k \in 1..Len(muxer.pending) : StdinWrite(k)
  \/ StdinClose
  \/ \E success \in BOOLEAN, text \in StderrTexts : MuxerExits(success, text)
  \/ StatusResolved
  \/ EndOfChapterize
  \/ EndOfWalk

SpecBatch == InitBatch /\ [][NextBatch]_vars

-----------------------------------------------------------------------------
(* The collector's methods called one after another by a caller that holds  *)
(* the collector itself: no stream stands between the caller and write,     *)
(* close and abort, so any of them can follow any other.                    *)

\* Number of method calls made on one collector.
MaxCalls == 4

\* The Errors abort is called with.
Reasons == {"read error", "process killed"}

\* A block's opening marker and key_frame line: a chunk that ends mid-block.
OpenPart == LitOpen \o NL \o LitKeyFrame \o <<"1">> \o NL

\* The chunks write is called with.
CallChunks == {BlockText(KeyEarly), BlockText(KeyLate), BlockText(KeyNoPts), OpenPart}

CallWrite(chunk) ==
  /\ calls < MaxCalls
  /\ LET r == write(stringBuffer, keyFrames, chunk)
     IN  /\ stringBuffer' = r.stringBuffer
         /\ keyFrames' = r.keyFrames
         /\ writeError' = IF r.threw THEN "couldn't parse framedata" ELSE "none"
  /\ lastCall' = [op |-> "write", arg |-> "chunk"]
  /\ calls' = calls + 1
  /\ UNCHANGED <<blocks, input, pos, completionPromise, stream, doc, frameText, parsed, batch>>

CallClose ==
  /\ calls < MaxCalls
  /\ LET f == filterFrames(keyFrames)
     IN  /\ completionPromise' = IF f.threw THEN completionPromise ELSE resolve(completionPromise, f.frames)
         /\ writeError' = IF f.threw THEN "TypeError" ELSE "none"
  /\ lastCall' = [op |-> "close", arg |-> "none"]
  /\ calls' = calls + 1
  /\ UNCHANGED <<blocks, input, pos, stringBuffer, keyFrames, stream, doc, frameText, parsed, batch>>

\* Mutant of CallAbort: the promise is rejected with a new Error, not with
\* the reason.
CallAbortOwnError(reason) ==
  /\ calls < MaxCalls
  /\ completionPromise' = reject(completionPromise, "aborted")
  /\ writeError' = "none"
  /\ lastCall' = [op |-> "abort", arg |-> reason]
  /\ calls' = calls + 1
  /\ UNCHANGED <<blocks, input, pos, stringBuffer, keyFrames, stream, doc, frameText, parsed, batch>>

CallAbort(reason) ==
  /\ calls < MaxCalls
  /\ completionPromise' = reject(completionPromise, reason)
  /\ writeError' = "none"
  /\ lastCall' = [op |-> "abort", arg |-> reason]
  /\ calls' = calls + 1
  /\ UNCHANGED <<blocks, input, pos, stringBuffer, keyFrames, stream, doc, frameText, parsed, batch>>

InitCollector ==
  /\ blocks = <<>>
  /\ input = <<>>
  /\ keyFrames = <<>>
  /\ Fresh
  /\ NoDirect
  /\ OneFile

\* Render is the consumer that awaits processingDone().
NextCollector ==
  \/ \E chunk \in CallChunks : CallWrite(chunk)
  \/ CallClose
  \/ \E reason \in Reasons : CallAbort(reason)
  \/ Render

SpecCollector == InitCollector /\ [][NextCollector]_vars

-----------------------------------------------------------------------------
(* The KeyFrame constructor called on the text of one block *)

PtsTexts == {<<>>, <<"5">>, <<"2", "0", "0">>, <<"9", "0">>}

PosTexts == {<<>>, <<"4", "8">>, <<"7">>, <<"3">>}

\* Blocks with each field present or absent, in the two orders.
ParserDescriptors ==
  {Descriptor(key, pts, pkt, swapped) :
     key \in {"0", "1"}, pts \in PtsTexts, pkt \in PosTexts, swapped \in BOOLEAN}

\* The text between a block's markers: matches[1] of write for that block.
FrameBody(d) ==
  SubSeq(BlockText(d), Len(LitOpen) + 1, Len(BlockText(d)) - Len(LitClose) - Len(NL))

NewKeyFrame ==
  /\ parsed = <<>>
  /\ parsed' = <<KeyFrame(frameText)>>
  /\ UNCHANGED <<collector, lastCall, calls, frameText, batch>>

InitParser ==
  /\ blocks \in {<<d>> : d \in ParserDescriptors}
  /\ input = StreamText(blocks)
  /\ keyFrames = <<>>
  /\ Fresh
  /\ lastCall = NoCall
  /\ calls = 0
  /\ frameText = FrameBody(blocks[1])
  /\ parsed = <<>>
  /\ OneFile

NextParser == NewKeyFrame

SpecParser == InitParser /\ [][NextParser]_vars

-----------------------------------------------------------------------------
(* Reading a chapter document back, and other helpers of the properties *)

Timestamps(frames) == [i \in 1..Len(frames) |-> frames[i].pts_time]

\* The pts_time values 0, b1, ..., b(n-1) for boundaries b1..bn.
ShiftedTimestamps(frames) ==
  [i \in 1..Len(frames) |-> IF i = 1 THEN 0 ELSE frames[i - 1].pts_time]

\* The lines of a text, each ended by a line break or by the end of the text.
RECURSIVE Lines(_)
Lines(t) ==
  IF t = <<>> THEN <<>>
  ELSE LET k == Min({i \in 1..Len(t) : t[i] = "\n"} \cup {Len(t) + 1})
       IN  <<SubSeq(t, 1, k - 1)>> \o Lines(SubSeq(t, k + 1, Len(t)))

HasPrefix(line, lit) == Len(line) >= Len(lit) /\ SubSeq(line, 1, Len(lit)) = lit

AfterPrefix(line, lit) == SubSeq(line, Len(lit) + 1, Len(line))

\* A decimal numeral without a sign and without superfluous leading zeros.
IsNumeral(ds) ==
  /\ ds # <<>>
  /\ \A i \in 1..Len(ds) : ds[i] \in Digit
  /\ Len(ds) > 1 => ds[1] # "0"

\* The number a numeral denotes, read from the left; -1 for any other text.
RECURSIVE ReadDigits(_, _, _)
ReadDigits(ds, i, acc) ==
  IF i > Len(ds) THEN acc ELSE ReadDigits(ds, i + 1, 10 * acc + DigitValue(ds[i]))

ReadNumber(ds) == IF IsNumeral(ds) THEN ReadDigits(ds, 1, 0) ELSE -1

\* The values of the lines lit<number> of a document, in order.
FieldValues(document, lit) ==
  LET ls == SelectSeq(Lines(document), LAMBDA l : HasPrefix(l, lit))
  IN  [i \in 1..Len(ls) |-> ReadNumber(AfterPrefix(ls[i], lit))]

StartsOf(document) == FieldValues(document, LitStart)

EndsOf(document) == FieldValues(document, LitEnd)

\* The frames of kfs at the indices in S, in order.
RECURSIVE PickFrom(_, _, _)
PickFrom(kfs, S, i) ==
  IF i > Len(kfs) THEN <<>>
  ELSE (IF i \in S THEN <<kfs[i]>> ELSE <<>>) \o PickFrom(kfs, S, i + 1)

\* The baseline of a scan that has selected the indices S, on reaching i.
BaselineAt(S, i) ==
  IF S \cap 1..(i - 1) = {} THEN 1 ELSE Max(S \cap 1..(i - 1))

\* S is the set of indices the greedy baseline scan selects from stamps ts.
IsGreedySelection(ts, S) ==
  \A i \in 1..Len(ts) : (i \in S) <=> (ts[i] - ts[BaselineAt(S, i)] > Threshold)

Closed == stream = "closed"

Rendered == doc # <<>>

-----------------------------------------------------------------------------
(* Properties of the selection and of the rendered document (SpecChapters) *)

\* C3: the list filterFrames returns is an order-preserving subsequence of the
\* raw KeyFrame sequence, and every selected pts_time exceeds the previously
\* selected one by more than 180.
C3_ThresholdInvariant ==
  Closed =>
    /\ \E S \in SUBSET (1..Len(keyFrames)) :
         completionPromise.value = PickFrom(keyFrames, S, 1)
    /\ \A i \in 2..Len(completionPromise.value) :
         completionPromise.value[i].pts_time - completionPromise.value[i - 1].pts_time > Threshold

C3_Witness ==
  /\ Closed
  /\ Len(completionPromise.value) = 2
  /\ Len(keyFrames) = MaxFrames
  /\ \E i \in 2..Len(keyFrames) : keyFrames[i].pts_time < keyFrames[i - 1].pts_time

\* C4: filterFrames is the greedy baseline scan: the baseline starts at the
\* first raw element, an element is selected exactly when its pts_time exceeds
\* the baseline's by more than 180 and then becomes the baseline; the first raw
\* element is never selected; [0, 50, 200, 210, 400] gives [200, 400].
C4_GreedyScan ==
  Closed =>
    /\ \E S \in SUBSET (1..Len(keyFrames)) :
         /\ IsGreedySelection(Timestamps(keyFrames), S)
         /\ 1 \notin S
         /\ completionPromise.value = PickFrom(keyFrames, S, 1)
    /\ Timestamps(keyFrames) = <<0, 50, 200, 210, 400>>
         => Timestamps(completionPromise.value) = <<200, 400>>

C4_Witness ==
  /\ Closed
  /\ Timestamps(keyFrames) = <<0, 50, 200, 210, 400>>
  /\ Timestamps(completionPromise.value) = <<200, 400>>

\* C5: close on a collector whose promise is pending fulfils the promise with
\* filterFrames of the frames collected, not with the raw sequence.
C5_CloseFulfilsFiltered ==
  Closed =>
    /\ completionPromise.state = "fulfilled"
    /\ completionPromise.value = filterFrames(keyFrames).frames

C5_Witness ==
  /\ Closed
  /\ completionPromise.state = "fulfilled"
  /\ completionPromise.value # <<>>
  /\ completionPromise.value # keyFrames

C7_ChaptersContiguous ==
  Rendered =>
    LET starts == StartsOf(doc)
        ends == EndsOf(doc)
    IN  /\ Len(starts) = Len(ends)
        /\ Len(starts) > 0 => starts[1] = 0
        /\ \A i \in 1..Len(starts) : starts[i] >= 0 /\ starts[i] < ends[i]
        /\ \A i \in 1..(Len(starts) - 1) : ends[i] = starts[i + 1]

C7_Witness ==
  /\ Rendered
  /\ Len(StartsOf(doc)) = 2
  /\ keyFrames[1].pts_time > 0

\* C8: reading the START and END values back from the document recovers the
\* boundary list: the END values are the boundaries, the START values are 0
\* followed by all boundaries but the last.
C8_RoundTrip ==
  Rendered =>
    /\ EndsOf(doc) = Timestamps(completionPromise.value)
    /\ StartsOf(doc) = ShiftedTimestamps(completionPromise.value)

C8_Witness ==
  /\ Rendered
  /\ Len(EndsOf(doc)) = 2
  /\ EndsOf(doc)[1] # EndsOf(doc)[2]

\* C9: with a raw sequence that is empty, has one element, or has no pts_time
\* more than 180 above the first, close does not throw (no pts_time of an
\* undefined baseline is read), fulfils the promise with an empty list, and the
\* document is the header line alone.
C9_ZeroBoundaries ==
  (\A i \in 1..Len(keyFrames) :
     keyFrames[i].pts_time - keyFrames[1].pts_time <= Threshold) =>
    /\ writeError # "TypeError"
    /\ Closed => completionPromise = [state |-> "fulfilled", value |-> <<>>]
    /\ Rendered => doc = LitHeader

C9_Witness ==
  /\ keyFrames = <<>>
  /\ Closed
  /\ doc = LitHeader

-----------------------------------------------------------------------------
(* Properties of write (Spec) *)

AllWellFormed == \A j \in 1..Len(blocks) : blocks[j] \in WellFormed

\* The index in input of the last character of block j's closing marker.
BlockEnd(j) == Len(StreamText(SubSeq(blocks, 1, j))) - Len(NL)

\* Block j has been delivered whole, closing marker included.
Delivered(j) == BlockEnd(j) <= pos

\* One frame per delivered block whose key_frame is 1, from block j on, each
\* with the block's own pts_time and pkt_pos.
RECURSIVE FramesOfBlocks(_)
FramesOfBlocks(j) ==
  IF j > Len(blocks) \/ ~Delivered(j) THEN <<>>
  ELSE (IF blocks[j].key_frame = "1"
        THEN <<[pts_time |-> ReadNumber(blocks[j].pts_time),
                pkt_pos |-> ReadNumber(blocks[j].pkt_pos)]>>
        ELSE <<>>) \o FramesOfBlocks(j + 1)

Contains(s, t) ==
  \E i \in 1..(Len(s) - Len(t) + 1) : SubSeq(s, i, i + Len(t) - 1) = t

\* No collected frame carries a field value of descriptor d.
NoFrameFrom(d) ==
  \A k \in 1..Len(keyFrames) :
    /\ d.pts_time # <<>> => keyFrames[k].pts_time # ReadNumber(d.pts_time)
    /\ d.pkt_pos # <<>> => keyFrames[k].pkt_pos # ReadNumber(d.pkt_pos)

\* C1: once every chunk of an input made of well-formed blocks has been
\* written, however the input was split, the collector holds the frames that
\* writing the whole input as a single chunk gives.
C1_ChunkIndependence ==
  (AllWellFormed /\ pos = Len(input)) =>
    keyFrames = write(<<>>, <<>>, input).keyFrames

\* C2: after any sequence of writes the collector holds exactly one frame per
\* complete block with key_frame=1 delivered so far, in stream order, with the
\* block's own pts_time and pkt_pos, also when one write delivers several
\* blocks.
C2_OneFramePerKeyBlock ==
  AllWellFormed => keyFrames = FramesOfBlocks(1)

\* C10: once a complete block with key_frame=1 that lacks pts_time or pkt_pos
\* has been delivered, write has thrown, the block is still in the buffer and
\* no frame was appended for it.
C10_MalformedRaises ==
  \A j \in 1..Len(blocks) :
    (Delivered(j) /\ blocks[j] \in {KeyNoPts, KeyNoPos}) =>
      /\ writeError = "couldn't parse framedata"
      /\ Contains(stringBuffer, SubSeq(BlockText(blocks[j]), 1,
                                       Len(BlockText(blocks[j])) - Len(NL)))
      /\ NoFrameFrom(blocks[j])

-----------------------------------------------------------------------------
(* Properties of chapterize and of the batch loop (SpecBatch) *)

\* The await of line 150 can never resume: the stream is errored, so the sink
\* gets no further call, and the promise is still pending.
AwaitBlocked == stream = "errored" /\ completionPromise.state = "pending"

\* C11: when write has thrown on a file's analysis output, chapterize is not
\* left waiting on a promise nothing will settle, and the program is not ended
\* by an uncaught error before the batch loop has caught and logged the
\* failure and gone on to the files that remain.
C11_ErrorReachesBatchLoop ==
  writeError = "couldn't parse framedata" =>
    /\ runtime = "chapterize" => ~AwaitBlocked
    /\ runtime # "uncaught"

\* C13: close is called only after the analysis process has ended normally;
\* once the process has ended abnormally the promise is never fulfilled and no
\* muxer is started for the file.
C13_AbortOnAbnormalExit ==
  /\ stream = "closed" => probe = "ok"
  /\ probe = "failed" =>
       /\ completionPromise.state # "fulfilled"
       /\ muxer.state = "none"

\* C17: a muxer is started only once the promise is fulfilled, and whenever
\* its stdin has been closed the whole document rendered from the fulfilled
\* value has been written to it: nothing of the document is left unwritten.
C17_DocumentWrittenBeforeClose ==
  /\ muxer.state # "none" => completionPromise.state = "fulfilled"
  /\ muxer.closed =>
       /\ muxer.pending = <<>>
       /\ muxer.stdin = generateChapterMetadata(completionPromise.value)

-----------------------------------------------------------------------------
(* Properties of the completion promise (SpecCollector) *)

\* The step is a call of op made while the promise was in one of states.
CallOn(op, states) ==
  /\ calls' = calls + 1
  /\ lastCall'.op = op
  /\ completionPromise.state \in states

\* C12: abort(reason) on a collector whose promise is pending rejects the
\* promise with that very reason, whatever was written before, and from then
\* on the promise stays rejected and the consumer is handed no collection (no
\* document is rendered).
C12_AbortRejectsWithReason ==
  [][/\ CallOn("abort", {"pending"}) =>
          /\ completionPromise' = [state |-> "rejected", value |-> lastCall'.arg]
          /\ doc' = <<>>
     /\ completionPromise.state = "rejected" =>
          /\ completionPromise'.state = "rejected"
          /\ doc' = <<>>]_vars

\* abort("process killed") after writes that left a frame and pending text.
C12_Witness ==
  /\ lastCall = [op |-> "abort", arg |-> "process killed"]
  /\ completionPromise = [state |-> "rejected", value |-> "process killed"]
  /\ keyFrames # <<>>
  /\ stringBuffer # <<>>

\* C14: the promise is settled at most once: from the step that fulfils or
\* rejects it on, no call of close, abort or write changes its state or its
\* value.
C14_SettledOnce ==
  [][completionPromise.state # "pending" => completionPromise' = completionPromise]_vars

\* A promise rejected by abort and still rejected with the same reason after
\* a later close, with frames that close would have delivered.
C14_Witness ==
  /\ lastCall.op = "close"
  /\ completionPromise = [state |-> "rejected", value |-> "read error"]
  /\ keyFrames # <<>>

\* C15: a call of close or abort made when the promise is already settled
\* does not return normally: it throws a DoubleResolution error.
C15_DoubleResolutionSignalled ==
  [][(\/ CallOn("close", {"fulfilled", "rejected"})
      \/ CallOn("abort", {"fulfilled", "rejected"})) =>
        writeError' = "DoubleResolution"]_vars

-----------------------------------------------------------------------------
(* Properties of the KeyFrame constructor (SpecParser) *)

\* C16: the constructor succeeds on every block that holds both a pts_time
\* and a pkt_pos field, in either order, and gives the values of the two
\* fields; it throws only when one of them is absent.
C16_EitherOrder ==
  parsed # <<>> =>
    IF blocks[1].pts_time # <<>> /\ blocks[1].pkt_pos # <<>>
    THEN /\ ~parsed[1].threw
         /\ parsed[1].pts_time = ReadNumber(blocks[1].pts_time)
         /\ parsed[1].pkt_pos = ReadNumber(blocks[1].pkt_pos)
    ELSE parsed[1].threw

-----------------------------------------------------------------------------
(* Properties of write on partial blocks (SpecSplit) *)

\* The text holds an opening marker with a closing marker after it.
HasCompleteBlock(s) ==
  LET brackets == {i \in 1..Len(s) : s[i] = "["}
      opens == {i \in brackets : /\ i + Len(LitOpen) - 1 <= Len(s)
                                 /\ SubSeq(s, i, i + Len(LitOpen) - 1) = LitOpen}
      closes == {j \in brackets : /\ j + Len(LitClose) - 1 <= Len(s)
                                  /\ SubSeq(s, j, j + Len(LitClose) - 1) = LitClose}
  IN  \E i \in opens, j \in closes : i + Len(LitOpen) <= j

\* There are no more frames than blocks delivered whole, and every frame's
\* values are those of fields of blocks delivered whole.
FramesFromDelivered ==
  /\ Len(keyFrames) <= Cardinality({j \in 1..Len(blocks) : Delivered(j)})
  /\ \A k \in 1..Len(keyFrames) :
       /\ \E j \in 1..Len(blocks) :
            Delivered(j) /\ keyFrames[k].pts_time = ReadNumber(blocks[j].pts_time)
       /\ \E j \in 1..Len(blocks) :
            Delivered(j) /\ keyFrames[k].pkt_pos = ReadNumber(blocks[j].pkt_pos)

\* C19: a write whose chunk leaves the buffer without a complete block (an
\* opening marker with a closing marker after it) changes neither keyFrames
\* nor the promise and keeps the buffer followed by the chunk, in order; and
\* after any step every frame collected comes from blocks whose closing
\* marker has been delivered.
C19_SuspendsOnPartialBlock ==
  [][/\ (pos' > pos /\ ~HasCompleteBlock(stringBuffer \o SubSeq(input, pos + 1, pos'))) =>
          /\ keyFrames' = keyFrames
          /\ completionPromise' = completionPromise
          /\ stringBuffer' = stringBuffer \o SubSeq(input, pos + 1, pos')
     /\ FramesFromDelivered']_vars

\* A key-frame block delivered, in one chunk or more, up to the middle of its
\* closing marker: all of it is pending, no frame has been made.
C19_Witness ==
  /\ blocks = <<KeyEarly>>
  /\ pos = Len(input) - 4
  /\ stringBuffer = SubSeq(input, 1, pos)
  /\ keyFrames = <<>>
  /\ completionPromise = Pending
  /\ stream = "writable"

====
